---- MODULE Spec2Model ----
(***************************************************************************)
(* manifest-annotator: the line-oriented rewriter that adds an annotation  *)
(* to the metadata.annotations block of every document of a YAML file.     *)
(*                                                                         *)
(* A line is a sequence of one-character strings, so that the prefix       *)
(* tests, the trimming, the split on ':' and the byte-wise comparison of   *)
(* the Go code are computed, not assumed.  A file is the sequence of lines *)
(* bufio.Scanner yields for it; a buffer is the sequence of lines written  *)
(* to it, each followed by "\n" in the code.                               *)
(*                                                                         *)
(* Three revisions of processAnnotations exist in the sources:             *)
(*   "skip"      src/annotator.go lines 1-258    (entries, skip-key)       *)
(*   "sorted"    src/unnamed/part_000 lines 1-228 (flat lines, sorted)     *)
(*   "reconcile" src/annotator.go lines 260-451  (value-reconciling)       *)
(* Run, processManifest and processMetadata are the same in all three.     *)
(***************************************************************************)
EXTENDS Naturals, Sequences, FiniteSets, TLC

VARIABLES variant, a, pc, file, lines, output, currentManifest, changed,
          anyChanged, err, wrote, runs, first, input, result

vars == <<variant, a, pc, file, lines, output, currentManifest, changed,
          anyChanged, err, wrote, runs, first, input, result>>

(***************************************************************************)
(* Bounds                                                                  *)
(***************************************************************************)
MaxFileLen == 6
MaxDocLen == 5
MaxFilterDocLen == 4
MaxMetaLen == 4
MaxAnnLen == 3

(***************************************************************************)
(* Strings                                                                 *)
(***************************************************************************)
\* The characters the model uses, in increasing byte order.
Alphabet == <<" ", "\"", "-", "1", ":", "A", "\\", "a", "b", "c", "d", "e",
              "g", "i", "j", "k", "l", "m", "n", "o", "p", "s", "t", "u",
              "v", "w", "x", "y", "z">>

Ord(c) == CHOOSE i \in 1..Len(Alphabet) : Alphabet[i] = c

Min(S) == CHOOSE x \in S : \A y \in S : x <= y

Max(S) == CHOOSE x \in S : \A y \in S : y <= x

Sp(n) == [i \in 1..n |-> " "]

Empty == << >>

HasPrefix(s, p) == Len(s) >= Len(p) /\ SubSeq(s, 1, Len(p)) = p

TrimPrefix(s, p) == IF HasPrefix(s, p) THEN SubSeq(s, Len(p) + 1, Len(s)) ELSE s

\* strings.Trim(s, cutset) for a one-character cutset: what is left of s
\* between its first and its last character other than c.
Trim(s, c) ==
    LET keep == {i \in 1..Len(s) : s[i] # c}
    IN  IF keep = {} THEN << >> ELSE SubSeq(s, Min(keep), Max(keep))

TrimSpace(s) == Trim(s, " ")

TrimQuotes(s) == Trim(s, "\"")

\* strings.SplitN(s, ":", 2): one part when s has no ':', else the text
\* before the first ':' and the text after it.
SplitN(s) ==
    LET colons == {i \in 1..Len(s) : s[i] = ":"}
    IN  IF colons = {} THEN <<s>>
        ELSE <<SubSeq(s, 1, Min(colons) - 1), SubSeq(s, Min(colons) + 1, Len(s))>>

\* Go's < on strings: byte-wise lexicographic order.
StrLess(s, t) ==
    LET n == IF Len(s) < Len(t) THEN Len(s) ELSE Len(t)
        diff == {i \in 1..n : s[i] # t[i]}
    IN  IF diff = {} THEN Len(s) < Len(t)
        ELSE Ord(s[Min(diff)]) < Ord(t[Min(diff)])

\* fmt's %q: the value between double quotes, '"' and '\' escaped.
RECURSIVE Escape(_, _)
Escape(s, i) ==
    IF i > Len(s) THEN << >>
    ELSE (IF s[i] = "\"" \/ s[i] = "\\" THEN <<"\\", s[i]>> ELSE <<s[i]>>)
         \o Escape(s, i + 1)

QuoteIdentity(s) == s

Quote(s) == <<"\"">> \o Escape(s, 1) \o <<"\"">>

\* fmt.Sprintf("    %s: %s", key, value)
FormatPlain(key, value) == Sp(4) \o key \o <<":", " ">> \o value

\* fmt.Sprintf("    %s: %q", key, value)
FormatQuoted(key, value) == Sp(4) \o key \o <<":", " ">> \o Quote(value)

(***************************************************************************)
(* Loops.  A loop of the code is a recursion over the index of the line,   *)
(* the loop's variables in one record; each iteration's record is bound by *)
(* a set constructor, so that it is computed once, before the next         *)
(* iteration reads it.                                                     *)
(***************************************************************************)

(***************************************************************************)
(* Revision "skip": annotation entries (src/annotator.go 152-243)          *)
(***************************************************************************)
newAnnotation(key, value) == [key |-> key, lines |-> <<FormatPlain(key, value)>>]

\* One iteration of the loop of parseAnnotations.  st.cur is << >> for a
\* nil currentAnnotation and <<entry>> otherwise; st.res is result.
parseStep(line, st) ==
    IF HasPrefix(line, Sp(6))
    THEN IF st.cur # << >>
         THEN [st EXCEPT !.cur = <<[st.cur[1] EXCEPT !.lines = Append(@, line)]>>]
         ELSE st
    ELSE IF Len(SplitN(line)) < 2 THEN st
    ELSE [cur |-> <<[key |-> TrimSpace(SplitN(line)[1]), lines |-> <<line>>]>>,
          res |-> st.res \o st.cur]

RECURSIVE parseLoop(_, _, _)
parseLoop(ls, i, st) ==
    IF i > Len(ls) THEN st.res \o st.cur
    ELSE CHOOSE r \in {parseLoop(ls, i + 1, s) : s \in {parseStep(ls[i], st)}} : TRUE

parseAnnotations(ls) == parseLoop(ls, 1, [cur |-> << >>, res |-> << >>])

Includes(anns, key) == \E i \in 1..Len(anns) : anns[i].key = key

Add(anns, key, value) == Append(anns, newAnnotation(key, value))

Less(anns, i, j) == StrLess(anns[i].key, anns[j].key)

Swap(s, i, j) == [s EXCEPT ![i] = s[j], ![j] = s[i]]

\* sort.Sort on fewer than seven elements is an insertion sort:
\*   for i := 1; i < n; i++ { for j := i; j > 0 && Less(j, j-1); j-- { Swap(j, j-1) } }
\* Indices here are 1-based.
RECURSIVE SortInner(_, _)
SortInner(anns, j) ==
    IF j > 1 /\ Less(anns, j, j - 1)
    THEN CHOOSE r \in {SortInner(s, j - 1) : s \in {Swap(anns, j, j - 1)}} : TRUE
    ELSE anns

RECURSIVE SortOuter(_, _)
SortOuter(anns, i) ==
    IF i > Len(anns) THEN anns
    ELSE CHOOSE r \in {SortOuter(s, i + 1) : s \in {SortInner(anns, i)}} : TRUE

SortUnsorted(anns) == anns

Sort(anns) == SortOuter(anns, 2)

RECURSIVE WriteFrom(_, _)
WriteFrom(anns, i) ==
    IF i > Len(anns) THEN << >> ELSE anns[i].lines \o WriteFrom(anns, i + 1)

WriteHeadersOnly(anns) == [i \in 1..Len(anns) |-> anns[i].lines[1]]

Write(anns) == WriteFrom(anns, 1)

\* What processAnnotations does with the parsed entries.
mergeSkip(cfg, annotations) ==
    IF ~Includes(annotations, cfg.Annotation) /\ ~Includes(annotations, cfg.SkipAnnotation)
    THEN [out |-> Write(Sort(Add(annotations, cfg.Annotation, cfg.Value))),
          changed |-> TRUE, panic |-> FALSE]
    ELSE [out |-> Write(annotations), changed |-> FALSE, panic |-> FALSE]

processAnnotationsSkip(cfg, ls) ==
    CHOOSE r \in {mergeSkip(cfg, annotations) : annotations \in {parseAnnotations(ls)}} : TRUE

(***************************************************************************)
(* Revision "sorted": flat lines (src/unnamed/part_000 152-213)            *)
(***************************************************************************)
\* annotationSorter.Less: "panic" when both texts before ':' are equal and
\* one of the two lines has no ':' (index 1 out of range).
LessLines(ls, i, j) ==
    LET partsI == SplitN(ls[i])
        partsJ == SplitN(ls[j])
    IN  IF partsI[1] = partsJ[1]
        THEN IF Len(partsI) < 2 \/ Len(partsJ) < 2 THEN "panic"
             ELSE IF StrLess(partsI[2], partsJ[2]) THEN "true" ELSE "false"
        ELSE IF StrLess(partsI[1], partsJ[1]) THEN "true" ELSE "false"

\* The same insertion sort; st = [lines, panic].
RECURSIVE SortLinesInner(_, _)
SortLinesInner(st, j) ==
    IF j > 1 /\ ~st.panic
    THEN CHOOSE r \in
           {IF c = "panic" THEN [st EXCEPT !.panic = TRUE]
            ELSE IF c = "true"
                 THEN SortLinesInner([st EXCEPT !.lines = Swap(st.lines, j, j - 1)], j - 1)
                 ELSE st : c \in {LessLines(st.lines, j, j - 1)}} : TRUE
    ELSE st

RECURSIVE SortLinesOuter(_, _)
SortLinesOuter(st, i) ==
    IF i > Len(st.lines) \/ st.panic THEN st
    ELSE CHOOSE r \in {SortLinesOuter(s, i + 1) : s \in {SortLinesInner(st, i)}} : TRUE

sortAnnotations(ls) ==
    CHOOSE r \in {SortLinesOuter(s, 2) : s \in {[lines |-> ls, panic |-> FALSE]}} : TRUE

includesAnnotationUntrimmed(ls, annotation) ==
    \E i \in 1..Len(ls) : SplitN(ls[i])[1] = annotation

includesAnnotation(ls, annotation) ==
    \E i \in 1..Len(ls) : TrimSpace(SplitN(ls[i])[1]) = annotation

\* processAnnotations once it has decided whether to add the target key.
writeSorted(cfg, ls, chg) ==
    IF chg
    THEN CHOOSE r \in
           {[out |-> IF sorted.panic THEN << >> ELSE sorted.lines,
             changed |-> TRUE, panic |-> sorted.panic] :
              sorted \in {sortAnnotations(Append(ls, FormatQuoted(cfg.Annotation, cfg.Value)))}}
           : TRUE
    ELSE [out |-> ls, changed |-> FALSE, panic |-> FALSE]

processAnnotationsSorted(cfg, ls) ==
    LET shouldSkip == includesAnnotation(ls, cfg.SkipAnnotation)
    IN  writeSorted(cfg, ls, ~shouldSkip /\ ~includesAnnotation(ls, cfg.Annotation))

(***************************************************************************)
(* Revision "reconcile" (src/annotator.go 409-436)                         *)
(***************************************************************************)
\* One iteration of the loop; st = [out, changed, found].
reconcileStep(cfg, line, st) ==
    LET parts == SplitN(line) IN
    IF Len(parts) # 2 THEN [st EXCEPT !.out = Append(@, line)]
    ELSE LET key == TrimSpace(parts[1])
             value == TrimQuotes(TrimSpace(parts[2]))
         IN  IF key = cfg.Annotation /\ value # cfg.Value
             THEN [out |-> Append(st.out, FormatQuoted(cfg.Annotation, cfg.Value)),
                   changed |-> TRUE, found |-> TRUE]
             ELSE [st EXCEPT !.out = Append(@, line),
                             !.found = @ \/ key = cfg.Annotation]

RECURSIVE reconcileLoop(_, _, _, _)
reconcileLoop(cfg, ls, i, st) ==
    IF i > Len(ls) THEN st
    ELSE CHOOSE r \in {reconcileLoop(cfg, ls, i + 1, s) :
                         s \in {reconcileStep(cfg, ls[i], st)}} : TRUE

\* After the loop: the key is added when no line had it.
reconcileEnd(cfg, st) ==
    IF ~st.found
    THEN [out |-> Append(st.out, FormatQuoted(cfg.Annotation, cfg.Value)),
          changed |-> TRUE, panic |-> FALSE]
    ELSE [out |-> st.out, changed |-> st.changed, panic |-> FALSE]

processAnnotationsReconcile(cfg, ls) ==
    CHOOSE r \in
      {reconcileEnd(cfg, st) :
         st \in {reconcileLoop(cfg, ls, 1,
                               [out |-> << >>, changed |-> FALSE, found |-> FALSE])}} : TRUE

processAnnotations(v, cfg, ls) ==
    IF v = "skip" THEN processAnnotationsSkip(cfg, ls)
    ELSE IF v = "sorted" THEN processAnnotationsSorted(cfg, ls)
    ELSE processAnnotationsReconcile(cfg, ls)

(***************************************************************************)
(* processMetadata (src/annotator.go 99-150, the same in every revision)   *)
(***************************************************************************)
P_name == <<" ", " ", "n", "a", "m", "e", ":">>
P_namespace == <<" ", " ", "n", "a", "m", "e", "s", "p", "a", "c", "e", ":">>
P_annotations == <<" ", " ", "a", "n", "n", "o", "t", "a", "t", "i", "o", "n", "s", ":">>
P_kind == <<"k", "i", "n", "d", ":">>
P_apiVersion == <<"a", "p", "i", "V", "e", "r", "s", "i", "o", "n", ":">>
P_metadata == <<"m", "e", "t", "a", "d", "a", "t", "a", ":">>
P_separator == <<"-", "-", "-">>

\* The value a scanning loop leaves in its variable: the trimmed rest of the
\* line that has the prefix, each such line overwriting the one before;
\* the zero value "" when no line has it.
RECURSIVE ExtractLast(_, _, _, _)
ExtractLast(ls, prefix, i, acc) ==
    IF i > Len(ls) THEN acc
    ELSE CHOOSE r \in
           {ExtractLast(ls, prefix, i + 1, v) :
              v \in {IF HasPrefix(ls[i], prefix)
                     THEN TrimSpace(TrimPrefix(ls[i], prefix))
                     ELSE acc}} : TRUE

skipProcessingIgnoresName(cfg, kind, groupVersion, name, namespace) ==
    \/ (Len(cfg.Kind) > 0 /\ cfg.Kind # kind)
    \/ (Len(cfg.GroupVersion) > 0 /\ cfg.GroupVersion # groupVersion)
    \/ (Len(cfg.Namespace) > 0 /\ cfg.Namespace # namespace)

skipProcessing(cfg, kind, groupVersion, name, namespace) ==
    \/ (Len(cfg.Kind) > 0 /\ cfg.Kind # kind)
    \/ (Len(cfg.GroupVersion) > 0 /\ cfg.GroupVersion # groupVersion)
    \/ (Len(cfg.Name) > 0 /\ cfg.Name # name)
    \/ (Len(cfg.Namespace) > 0 /\ cfg.Namespace # namespace)

\* "annotations were never found": the test the code makes before it writes
\* a new "  annotations:" line.
annotationsMissing(annotationLines) == Len(annotationLines) = 0

\* A callee's result taken over by the caller: its lines go to the shared
\* buffer and its return value is assigned to changed.
Absorb(st, r) ==
    CHOOSE x \in {[st EXCEPT !.out = @ \o res.out, !.changed = res.changed,
                              !.panic = res.panic] : res \in {r}} : TRUE

\* One iteration of the loop of processMetadata;
\* st = [out, changed, annotationLines, inAnnotations, annotationsProcessed, panic].
metadataClose(st, r) ==
    [Absorb(st, r) EXCEPT !.inAnnotations = FALSE, !.annotationsProcessed = TRUE]

metadataWrite(line, st) ==
    IF st.panic THEN st
    ELSE [st EXCEPT !.inAnnotations = @ \/ HasPrefix(line, P_annotations),
                    !.out = Append(@, line)]

metadataStep(v, cfg, line, st) ==
    IF st.inAnnotations
    THEN IF ~HasPrefix(line, Sp(4))
         THEN CHOOSE r \in
                {metadataWrite(line, s) :
                   s \in {metadataClose(st, processAnnotations(v, cfg, st.annotationLines))}}
                : TRUE
         ELSE [st EXCEPT !.annotationLines = Append(@, line)]
    ELSE metadataWrite(line, st)

RECURSIVE metadataLoop(_, _, _, _, _)
metadataLoop(v, cfg, ls, i, st) ==
    IF i > Len(ls) \/ st.panic THEN st
    ELSE CHOOSE r \in {metadataLoop(v, cfg, ls, i + 1, s) :
                         s \in {metadataStep(v, cfg, ls[i], st)}} : TRUE

\* After the loop of processMetadata.
metadataSynthesize(st) ==
    IF annotationsMissing(st.annotationLines)
    THEN [st EXCEPT !.changed = TRUE, !.out = Append(@, P_annotations)]
    ELSE st

metadataEnd(v, cfg, st) ==
    IF st.panic \/ st.annotationsProcessed THEN st
    ELSE Absorb(st, processAnnotations(v, cfg, st.annotationLines))

Result(st) == [out |-> st.out, changed |-> st.changed, panic |-> st.panic]

processMetadata(v, cfg, ls, kind, groupVersion) ==
    IF skipProcessing(cfg, kind, groupVersion,
                      ExtractLast(ls, P_name, 1, Empty),
                      ExtractLast(ls, P_namespace, 1, Empty))
    THEN [out |-> ls, changed |-> FALSE, panic |-> FALSE]
    ELSE CHOOSE r \in
           {Result(IF st.panic THEN st ELSE metadataEnd(v, cfg, metadataSynthesize(st))) :
              st \in {metadataLoop(v, cfg, ls, 1,
                         [out |-> << >>, changed |-> FALSE, annotationLines |-> << >>,
                          inAnnotations |-> FALSE, annotationsProcessed |-> FALSE,
                          panic |-> FALSE])}} : TRUE

(***************************************************************************)
(* processManifest (src/annotator.go 59-97, the same in every revision)    *)
(***************************************************************************)
\* One iteration of the second loop of processManifest;
\* st = [out, changed, metadataLines, inMetadata, metadataProcessed, panic].
manifestClose(st, r) ==
    [Absorb(st, r) EXCEPT !.inMetadata = FALSE, !.metadataProcessed = TRUE]

manifestWrite(line, st) ==
    IF st.panic THEN st
    ELSE [st EXCEPT !.inMetadata = @ \/ HasPrefix(line, P_metadata),
                    !.out = Append(@, line)]

manifestStep(v, cfg, kind, groupVersion, line, st) ==
    IF st.inMetadata
    THEN IF ~HasPrefix(line, Sp(2))
         THEN CHOOSE r \in
                {manifestWrite(line, s) :
                   s \in {manifestClose(st, processMetadata(v, cfg, st.metadataLines,
                                                            kind, groupVersion))}}
                : TRUE
         ELSE [st EXCEPT !.metadataLines = Append(@, line)]
    ELSE manifestWrite(line, st)

RECURSIVE manifestLoop(_, _, _, _, _, _, _)
manifestLoop(v, cfg, ls, kind, groupVersion, i, st) ==
    IF i > Len(ls) \/ st.panic THEN st
    ELSE CHOOSE r \in {manifestLoop(v, cfg, ls, kind, groupVersion, i + 1, s) :
                         s \in {manifestStep(v, cfg, kind, groupVersion, ls[i], st)}} : TRUE

\* The test that decides, after the loop, whether the metadata lines
\* collected so far are still to be processed.
metadataPending(st) == ~st.metadataProcessed /\ Len(st.metadataLines) > 0

manifestEnd(v, cfg, kind, groupVersion, st) ==
    IF ~st.panic /\ metadataPending(st)
    THEN Absorb(st, processMetadata(v, cfg, st.metadataLines, kind, groupVersion))
    ELSE st

processManifest(v, cfg, ls) ==
    CHOOSE r \in
      {Result(manifestEnd(v, cfg, kind, groupVersion,
                 manifestLoop(v, cfg, ls, kind, groupVersion, 1,
                    [out |-> << >>, changed |-> FALSE, metadataLines |-> << >>,
                     inMetadata |-> FALSE, metadataProcessed |-> FALSE, panic |-> FALSE]))) :
         kind \in {ExtractLast(ls, P_kind, 1, Empty)},
         groupVersion \in {ExtractLast(ls, P_apiVersion, 1, Empty)}} : TRUE

(***************************************************************************)
(* Inputs                                                                  *)
(***************************************************************************)
Variants == {"skip", "sorted", "reconcile"}

Seqs(S, n) == UNION {[1..k -> S] : k \in 0..n}

L_separator == P_separator
L_metadata == P_metadata
L_annotations == P_annotations
L_spec == <<"s", "p", "e", "c", ":">>
L_kindA == P_kind \o <<" ", "A">>
L_apiVersion == P_apiVersion \o <<" ", "g">>
L_nameA == P_name \o <<" ", "a">>
L_namespaceN == P_namespace \o <<" ", "n">>
L_labels == <<" ", " ", "l", "a", "b", "e", "l", "s", ":">>
L_k == Sp(4) \o <<"k", ":", " ", "v">>
L_kOther == Sp(4) \o <<"k", ":", " ", "w">>
L_kQuoted == Sp(4) \o <<"k", ":", " ", "\"", "v", "\"">>
L_s == Sp(4) \o <<"s", ":", " ", "x">>
L_z == Sp(4) \o <<"z", ":", " ", "1">>
L_b == Sp(4) \o <<"b", ":", " ", "y">>
L_junk == Sp(4) \o <<"j", "u", "n", "k">>
L_cont == Sp(6) \o <<"c", "o", "n", "t">>
L_more == Sp(6) \o <<"m", "o", "r", "e">>
L_blank == Sp(4)

K_target == <<"k">>
K_skip == <<"s">>
V_value == <<"v">>
V_quote == <<"a", "\"", "b">>

NoFilter == [Kind |-> Empty, GroupVersion |-> Empty, Name |-> Empty, Namespace |-> Empty]

Config(skip, f) ==
    [Annotation |-> K_target, SkipAnnotation |-> skip, Value |-> V_value,
     Kind |-> f.Kind, GroupVersion |-> f.GroupVersion,
     Name |-> f.Name, Namespace |-> f.Namespace]

FileVocab == {L_separator, L_metadata, L_nameA, L_annotations}
DocVocab == {L_metadata, L_nameA, L_annotations, L_k, L_s, L_junk, L_spec}
FilterVocab == {L_kindA, L_apiVersion, L_metadata, L_nameA, L_namespaceN, L_annotations, L_k}
MetaVocab == {L_nameA, L_annotations, L_labels, L_k, L_s, L_junk}
AnnVocab == {L_k, L_kOther, L_kQuoted, L_s, L_z, L_b, L_junk, L_cont, L_more, L_blank}

NoResult == [out |-> << >>, changed |-> FALSE, panic |-> FALSE]

(***************************************************************************)
(* Run (src/annotator.go 33-57, the same in every revision)                *)
(***************************************************************************)
MaxRuns == 2

Init ==
    /\ variant \in Variants
    /\ a \in {Config(Empty, [NoFilter EXCEPT !.Name = n]) : n \in {Empty, <<"a">>}}
    /\ file \in Seqs(FileVocab, MaxFileLen)
    /\ pc = "start"
    /\ lines = << >>
    /\ output = << >>
    /\ currentManifest = << >>
    /\ changed = FALSE
    /\ anyChanged = FALSE
    /\ err = "none"
    /\ wrote = 0
    /\ runs = 1
    /\ first = << >>
    /\ input = file
    /\ result = NoResult

\* readLines succeeds: the lines of the file, then the loop starts.
ReadLines ==
    /\ pc = "start"
    /\ lines' = file
    /\ output' = << >>
    /\ currentManifest' = << >>
    /\ pc' = "loop"
    /\ UNCHANGED <<variant, a, file, changed, anyChanged, err, wrote, runs, first,
                   input, result>>

\* readLines fails: Run returns the error.
ReadLinesFails ==
    /\ pc = "start"
    /\ err' = "read"
    /\ pc' = "done"
    /\ UNCHANGED <<variant, a, file, lines, output, currentManifest, changed,
                   anyChanged, wrote, runs, first, input, result>>

\* The loop, were the file written as soon as a document has changed.
LoopStepWritesEarly ==
    /\ pc = "loop"
    /\ lines # << >>
    /\ LET line == Head(lines) IN
       IF HasPrefix(line, P_separator)
       THEN \E r \in {processManifest(variant, a, currentManifest)} :
            IF r.panic
            THEN /\ pc' = "panicked"
                 /\ UNCHANGED <<output, currentManifest, anyChanged, file, wrote>>
            ELSE /\ output' = Append(output \o r.out, line)
                 /\ currentManifest' = << >>
                 /\ anyChanged' = (anyChanged \/ r.changed)
                 /\ pc' = "loop"
                 /\ IF r.changed
                    THEN file' = output' /\ wrote' = wrote + 1
                    ELSE UNCHANGED <<file, wrote>>
       ELSE /\ currentManifest' = Append(currentManifest, line)
            /\ UNCHANGED <<output, anyChanged, pc, file, wrote>>
    /\ lines' = Tail(lines)
    /\ UNCHANGED <<variant, a, changed, err, runs, first, input, result>>

\* One iteration of the loop over the lines; lines holds the lines left.
LoopStep ==
    /\ pc = "loop"
    /\ lines # << >>
    /\ LET line == Head(lines) IN
       IF HasPrefix(line, P_separator)
       THEN \E r \in {processManifest(variant, a, currentManifest)} :
            IF r.panic
            THEN /\ pc' = "panicked"
                 /\ UNCHANGED <<output, currentManifest, anyChanged>>
            ELSE /\ output' = Append(output \o r.out, line)
                 /\ currentManifest' = << >>
                 /\ anyChanged' = (anyChanged \/ r.changed)
                 /\ pc' = "loop"
       ELSE /\ currentManifest' = Append(currentManifest, line)
            /\ UNCHANGED <<output, anyChanged, pc>>
    /\ lines' = Tail(lines)
    /\ UNCHANGED <<variant, a, file, changed, err, wrote, runs, first, input, result>>

\* After the loop: the last document, then what Run does with its result.
\* writeOk is the outcome of ioutil.WriteFile, truncated whether a failed
\* write left the file truncated.
Finish(writeOk, truncated) ==
    /\ pc = "loop"
    /\ lines = << >>
    /\ \E r \in {processManifest(variant, a, currentManifest)} :
       IF r.panic
       THEN /\ pc' = "panicked"
            /\ UNCHANGED <<output, changed, anyChanged, file, wrote, err>>
       ELSE /\ output' = output \o r.out
            /\ changed' = r.changed
            /\ anyChanged' = (anyChanged \/ r.changed)
            /\ pc' = "done"
            /\ IF r.changed
               THEN /\ wrote' = wrote + 1
                    /\ IF writeOk
                       THEN file' = output' /\ err' = err
                       ELSE file' = (IF truncated THEN << >> ELSE file) /\ err' = "write"
               ELSE UNCHANGED <<file, wrote, err>>
    /\ UNCHANGED <<variant, a, lines, currentManifest, runs, first, input, result>>

FinishRun == Finish(TRUE, FALSE)

FinishRunWriteFails == \E truncated \in BOOLEAN : Finish(FALSE, truncated) /\ wrote' = wrote + 1

\* The tool is run again on the file the run left, with the same arguments.
RunAgain ==
    /\ pc = "done"
    /\ err = "none"
    /\ runs < MaxRuns
    /\ runs' = runs + 1
    /\ first' = file
    /\ pc' = "start"
    /\ lines' = << >>
    /\ output' = << >>
    /\ currentManifest' = << >>
    /\ changed' = FALSE
    /\ anyChanged' = FALSE
    /\ wrote' = 0
    /\ UNCHANGED <<variant, a, file, err, input, result>>

Next == ReadLines \/ ReadLinesFails \/ LoopStep \/ FinishRun \/ FinishRunWriteFails \/ RunAgain

Spec == Init /\ [][Next]_vars

(***************************************************************************)
(* The three functions applied to one input each                           *)
(***************************************************************************)
Idle(p) ==
    /\ pc = p
    /\ file = << >>
    /\ lines = << >>
    /\ output = << >>
    /\ currentManifest = << >>
    /\ changed = FALSE
    /\ anyChanged = FALSE
    /\ err = "none"
    /\ wrote = 0
    /\ runs = 1
    /\ first = << >>
    /\ result = NoResult

RunVars == <<file, lines, output, currentManifest, changed, anyChanged, err, wrote,
             runs, first>>

InitAnnotations ==
    /\ variant \in Variants
    /\ a \in {Config(s, NoFilter) : s \in {Empty, K_skip}}
    /\ input \in Seqs(AnnVocab, MaxAnnLen)
    /\ Idle("annotations")

CallProcessAnnotations ==
    /\ pc = "annotations"
    /\ result' = processAnnotations(variant, a, input)
    /\ pc' = "returned"
    /\ UNCHANGED <<variant, a, input, RunVars>>

SpecAnnotations == InitAnnotations /\ [][CallProcessAnnotations]_vars

\* The value-reconciling revision, also with a value that %q escapes.
InitReconcile ==
    /\ variant = "reconcile"
    /\ a \in {[Config(Empty, NoFilter) EXCEPT !.Value = val] : val \in {V_value, V_quote}}
    /\ input \in Seqs(AnnVocab, MaxAnnLen)
    /\ Idle("annotations")

SpecReconcile == InitReconcile /\ [][CallProcessAnnotations]_vars

InitMetadata ==
    /\ variant \in Variants
    /\ a \in {Config(s, [NoFilter EXCEPT !.Name = n]) :
                s \in {Empty, K_skip}, n \in {Empty, <<"a">>}}
    /\ input \in Seqs(MetaVocab, MaxMetaLen)
    /\ Idle("metadata")

CallProcessMetadata ==
    /\ pc = "metadata"
    /\ result' = processMetadata(variant, a, input, Empty, Empty)
    /\ pc' = "returned"
    /\ UNCHANGED <<variant, a, input, RunVars>>

SpecMetadata == InitMetadata /\ [][CallProcessMetadata]_vars

InitManifest ==
    /\ variant \in Variants
    /\ a \in {Config(s, NoFilter) : s \in {Empty, K_skip}}
    /\ input \in Seqs(DocVocab, MaxDocLen)
    /\ Idle("manifest")

InitFilter ==
    /\ variant \in Variants
    /\ a \in {Config(Empty, [Kind |-> k, GroupVersion |-> g, Name |-> n, Namespace |-> ns]) :
                k \in {Empty, <<"A">>}, g \in {Empty, <<"g">>},
                n \in {Empty, <<"a">>}, ns \in {Empty, <<"n">>}}
    /\ input \in Seqs(FilterVocab, MaxFilterDocLen)
    /\ Idle("manifest")

CallProcessManifest ==
    /\ pc = "manifest"
    /\ result' = processManifest(variant, a, input)
    /\ pc' = "returned"
    /\ UNCHANGED <<variant, a, input, RunVars>>

SpecManifest == InitManifest /\ [][CallProcessManifest]_vars

SpecFilter == InitFilter /\ [][CallProcessManifest]_vars

TypeOK == pc \in {"start", "loop", "done", "panicked", "annotations", "metadata",
                  "manifest", "returned"}

(***************************************************************************)
(* Vocabulary of the properties                                            *)
(***************************************************************************)
Count(ls, l) == Cardinality({i \in 1..Len(ls) : ls[i] = l})

Range(ls) == {ls[i] : i \in 1..Len(ls)}

HasColon(l) == \E i \in 1..Len(l) : l[i] = ":"

\* The documents of a file: the lines between the lines that begin with ---.
RECURSIVE DocsFrom(_, _, _)
DocsFrom(ls, cur, acc) ==
    IF ls = << >> THEN Append(acc, cur)
    ELSE IF HasPrefix(Head(ls), P_separator)
         THEN DocsFrom(Tail(ls), << >>, Append(acc, cur))
         ELSE DocsFrom(Tail(ls), Append(cur, Head(ls)), acc)

Docs(ls) == DocsFrom(ls, << >>, << >>)

\* The longest prefix of ls whose lines all begin with the indent.
RECURSIVE Block(_, _)
Block(ls, indent) ==
    IF ls # << >> /\ HasPrefix(Head(ls), indent)
    THEN <<Head(ls)>> \o Block(Tail(ls), indent)
    ELSE << >>

\* The lines of ls after the first line that begins with the prefix.
RECURSIVE After(_, _)
After(ls, prefix) ==
    IF ls = << >> THEN << >>
    ELSE IF HasPrefix(Head(ls), prefix) THEN Tail(ls)
    ELSE After(Tail(ls), prefix)

PrefixCount(ls, prefix) == Cardinality({i \in 1..Len(ls) : HasPrefix(ls[i], prefix)})

MetadataBlock(doc) == Block(After(doc, P_metadata), Sp(2))

AnnotationBlock(md) == Block(After(md, P_annotations), Sp(4))

\* The value of a field: the trimmed text after the prefix on the last line
\* that begins with it, empty when there is none.
LastValue(ls, prefix) ==
    LET S == {i \in 1..Len(ls) : HasPrefix(ls[i], prefix)} IN
    IF S = {} THEN Empty
    ELSE LET i == CHOOSE k \in S : \A m \in S : m <= k
         IN  TrimSpace(SubSeq(ls[i], Len(prefix) + 1, Len(ls[i])))

FieldMatches(want, got) == want = Empty \/ want = got

MetadataMatches(cfg, md, kind, groupVersion) ==
    /\ FieldMatches(cfg.Kind, kind)
    /\ FieldMatches(cfg.GroupVersion, groupVersion)
    /\ FieldMatches(cfg.Name, LastValue(md, P_name))
    /\ FieldMatches(cfg.Namespace, LastValue(md, P_namespace))

DocMatches(cfg, doc) ==
    MetadataMatches(cfg, MetadataBlock(doc), LastValue(doc, P_kind),
                    LastValue(doc, P_apiVersion))

\* An entry header line: fewer than six spaces of indent and a ':'.
IsHeader(l) == ~HasPrefix(l, Sp(6)) /\ HasColon(l)

KeyOf(l) ==
    LET i == CHOOSE k \in 1..Len(l) : l[k] = ":" /\ \A m \in 1..(k - 1) : l[m] # ":"
    IN  TrimSpace(SubSeq(l, 1, i - 1))

HasEntry(block, key) == \E i \in 1..Len(block) : IsHeader(block[i]) /\ KeyOf(block[i]) = key

\* The line the revision adds for the target key.
PlainLine(cfg) == Sp(4) \o cfg.Annotation \o <<":", " ">> \o cfg.Value

QuotedLine(cfg) == Sp(4) \o cfg.Annotation \o <<":", " ", "\"">> \o cfg.Value \o <<"\"">>

NewLine(v, cfg) == IF v = "skip" THEN PlainLine(cfg) ELSE QuotedLine(cfg)

(***************************************************************************)
(* Claims about Run                                                        *)
(***************************************************************************)
RunReturned == pc = "done" /\ err # "read"

\* C1: when Run has returned, the file was written if and only if at least
\* one processManifest call of the run returned changed = true, and a
\* successful write leaves the full output buffer in the file.
C1_WriteIffAnyChanged ==
    RunReturned =>
        /\ (wrote = 1) <=> anyChanged
        /\ (wrote = 1 /\ err = "none") => file = output

\* C2: in revision "skip", after two successful runs with the same
\* arguments the file content equals the content the first run left.
C2_Idempotent ==
    (variant = "skip" /\ pc = "done" /\ err = "none" /\ runs = 2) => file = first

\* The case of C4: the input file has three documents, none empty and each
\* with at most one metadata: line; only the second matches the filters,
\* and its metadata block is not empty and has no annotation block.
C4Case ==
    LET docs == Docs(input) IN
    /\ Len(docs) = 3
    /\ \A i \in 1..3 : docs[i] # << >>
    /\ \A i \in 1..3 : PrefixCount(docs[i], P_metadata) <= 1
    /\ a.Name # Empty
    /\ ~DocMatches(a, docs[1])
    /\ DocMatches(a, docs[2])
    /\ ~DocMatches(a, docs[3])
    /\ MetadataBlock(docs[2]) # << >>
    /\ PrefixCount(docs[2], P_annotations) = 0

\* C4: after a successful first run on such a file, the first and third
\* documents of the file are those of the input and the second document
\* holds the new annotation line.
C4_MultiDocPreserved ==
    (pc = "done" /\ err = "none" /\ runs = 1 /\ C4Case) =>
        LET docs == Docs(file) IN
        /\ Len(docs) = 3
        /\ docs[1] = Docs(input)[1]
        /\ docs[3] = Docs(input)[3]
        /\ NewLine(variant, a) \in Range(docs[2])

(***************************************************************************)
(* Claims about processManifest                                            *)
(***************************************************************************)
Returned == pc = "returned"

C5_SkipKeyLeavesDocument ==
    (/\ Returned
     /\ variant = "skip"
     /\ a.SkipAnnotation # Empty
     /\ PrefixCount(input, P_metadata) = 1
     /\ HasEntry(AnnotationBlock(MetadataBlock(input)), a.SkipAnnotation))
    => (result.out = input /\ ~result.changed)

\* C9: in revision "sorted", the lines processManifest writes are, as a
\* multiset, the document's lines plus at most one "  annotations:" line
\* and at most one new annotation line.
C9_NoLineLostOrDuplicated ==
    (Returned /\ variant = "sorted" /\ ~result.panic) =>
        \E x \in {0, 1}, y \in {0, 1} :
            \A l \in Range(input) \cup Range(result.out) \cup {P_annotations, QuotedLine(a)} :
                Count(result.out, l) =
                    Count(input, l) + (IF l = P_annotations THEN x ELSE 0)
                                    + (IF l = QuotedLine(a) THEN y ELSE 0)

(***************************************************************************)
(* Claims about processMetadata                                            *)
(***************************************************************************)
MatchesFilters == MetadataMatches(a, input, Empty, Empty)

\* C7: in revision "sorted", for a filter-matching metadata block of at
\* least one line and no "  annotations:" line, processMetadata writes the
\* input lines in order, then "  annotations:", then the target key with
\* its value between double quotes, and nothing else.
C7_Synthesis ==
    (/\ Returned
     /\ variant = "sorted"
     /\ input # << >>
     /\ PrefixCount(input, P_annotations) = 0
     /\ MatchesFilters)
    => result.out = input \o <<P_annotations, QuotedLine(a)>>

\* A block matched on its name, without annotations, was processed.
C7_Witness ==
    /\ Returned
    /\ variant = "sorted"
    /\ Len(input) >= 2
    /\ PrefixCount(input, P_annotations) = 0
    /\ a.Name # Empty
    /\ MatchesFilters
    /\ result.changed

\* C10: in revision "skip", for a filter-matching metadata block,
\* processMetadata writes one more "  annotations:" line than it read if
\* and only if no input line begins with "  annotations:", and it returns
\* changed = true whenever it writes that line.
Synthesized == Count(result.out, P_annotations) > Count(input, P_annotations)

C10_SynthesizedOnlyWhenAbsent ==
    (Returned /\ variant = "skip" /\ MatchesFilters) =>
        /\ Synthesized <=> (PrefixCount(input, P_annotations) = 0)
        /\ Synthesized => result.changed

(***************************************************************************)
(* Claims about processAnnotations                                         *)
(***************************************************************************)
\* The trimmed keys of the entry header lines of ls, in order.
RECURSIVE HeaderKeys(_)
HeaderKeys(ls) ==
    IF ls = << >> THEN << >>
    ELSE IF IsHeader(Head(ls)) THEN <<KeyOf(Head(ls))>> \o HeaderKeys(Tail(ls))
    ELSE HeaderKeys(Tail(ls))

NonDecreasing(keys) ==
    \A i \in 1..Len(keys) : \A j \in 1..Len(keys) : i < j => ~StrLess(keys[j], keys[i])

\* The lines of ls that belong to an entry (a header line, or a line of six
\* or more spaces of indent after a header line), in their input order.
RECURSIVE EntryLines(_, _)
EntryLines(ls, started) ==
    IF ls = << >> THEN << >>
    ELSE IF HasPrefix(Head(ls), Sp(6))
         THEN (IF started THEN <<Head(ls)>> ELSE << >>) \o EntryLines(Tail(ls), started)
    ELSE IF HasColon(Head(ls)) THEN <<Head(ls)>> \o EntryLines(Tail(ls), TRUE)
    ELSE EntryLines(Tail(ls), started)

\* C6: in revision "skip", when processAnnotations returns changed = true
\* the entries it writes are in non-decreasing order of their trimmed keys,
\* and when it returns changed = false the entries are written in their
\* input order.
C6_SortInvariant ==
    (Returned /\ variant = "skip") =>
        /\ result.changed => NonDecreasing(HeaderKeys(result.out))
        /\ ~result.changed => result.out = EntryLines(input, FALSE)

\* A block whose entries were out of order was changed.
C6_Witness ==
    /\ Returned
    /\ variant = "skip"
    /\ result.changed
    /\ ~NonDecreasing(HeaderKeys(input))

\* C8: in revision "skip", every input line without ':' and with less
\* than six spaces of indent is among the lines processAnnotations writes.
C8_UnparsableLinesPreserved ==
    (Returned /\ variant = "skip") =>
        \A i \in 1..Len(input) :
            (~HasColon(input[i]) /\ ~HasPrefix(input[i], Sp(6)))
                => Count(result.out, input[i]) >= 1

\* A document that ends with a bodiless metadata: line, its only one.
C11Case ==
    /\ Returned
    /\ input # << >>
    /\ HasPrefix(input[Len(input)], P_metadata)
    /\ PrefixCount(input, P_metadata) = 1

\* C11: when metadata: is the last line of a matching document, processManifest
\* runs the metadata step with zero lines: the output is the document followed
\* by the annotations: line and the target line, changed is true, and the
\* result is that of the same document followed by an unindented line.
C11_EmptyMetadataAtEnd ==
    C11Case =>
        /\ result.changed
        /\ result.out = input \o <<P_annotations, NewLine(variant, a)>>
        /\ \E r \in {processManifest(variant, a, Append(input, L_spec))} :
               /\ r.changed = result.changed
               /\ r.out = Append(result.out, L_spec)

\* C12: changed is accurate: processManifest returns changed = TRUE exactly when
\* the lines it wrote differ from the lines of the document.
C12_ChangedAccurate ==
    (Returned /\ variant = "sorted" /\ ~result.panic) =>
        (result.changed <=> result.out # input)

\* An entry header line with exactly four spaces of indent: "    key: value".
IsEntryHeader(l) == HasPrefix(l, Sp(4)) /\ Len(l) > 4 /\ l[5] # " " /\ HasColon(l)

TargetAbsent(block, key) ==
    \A i \in 1..Len(block) : IsEntryHeader(block[i]) => KeyOf(block[i]) # key

\* C13: with an empty skip-key and no entry header line that has the target key,
\* processAnnotations adds exactly one line, "    <key>: \"<value>\"", and
\* returns changed = TRUE, whatever other lines the block holds.
C13_InsertWhenAbsent ==
    (/\ Returned
     /\ variant = "sorted"
     /\ ~result.panic
     /\ a.SkipAnnotation = Empty
     /\ TargetAbsent(input, a.Annotation)) =>
        /\ result.changed
        /\ Len(result.out) = Len(input) + 1
        /\ \A l \in Range(input) \cup {QuotedLine(a)} :
               Count(result.out, l) = Count(input, l) + (IF l = QuotedLine(a) THEN 1 ELSE 0)

\* C14: processAnnotations completes normally for every annotation block,
\* whether or not the target key is inserted and the block sorted.
C14_NeverFatal ==
    (Returned /\ variant = "sorted") => ~result.panic

\* C15: whenever an entry of the block has the target key, processAnnotations
\* returns changed = FALSE and writes the input lines, in the same order.
C15_AddOnly ==
    (Returned /\ variant = "sorted" /\ HasEntry(input, a.Annotation)) =>
        /\ ~result.panic
        /\ ~result.changed
        /\ result.out = input

\* The target key is present with another value, among lines out of key order.
C15_Witness ==
    /\ Returned
    /\ variant = "sorted"
    /\ a.SkipAnnotation = Empty
    /\ input = <<L_z, L_kOther, L_b>>
    /\ result.out = input
    /\ ~result.changed

\* The continuation lines between index i and the next entry header line.
RECURSIVE ContinuationsFrom(_, _)
ContinuationsFrom(ls, i) ==
    IF i > Len(ls) \/ IsHeader(ls[i]) THEN << >>
    ELSE (IF HasPrefix(ls[i], Sp(6)) THEN <<ls[i]>> ELSE << >>)
             \o ContinuationsFrom(ls, i + 1)

\* The entry of the header line at index j: the header and its continuation lines.
Entry(ls, j) == <<ls[j]>> \o ContinuationsFrom(ls, j + 1)

\* The header line at index j with the continuation lines right after it.
HeaderRun(ls, j) == <<ls[j]>> \o Block(SubSeq(ls, j + 1, Len(ls)), Sp(6))

Headers(ls) == {j \in 1..Len(ls) : IsHeader(ls[j])}

EntryCount(ls, e) == Cardinality({j \in Headers(ls) : Entry(ls, j) = e})

\* How many times the lines of g occur in ls, contiguously and in order.
Occurrences(ls, g) ==
    Cardinality({j \in 1..Len(ls) :
                   j + Len(g) - 1 <= Len(ls) /\ SubSeq(ls, j, j + Len(g) - 1) = g})

\* C16: after processAnnotations inserts the target key and sorts, every
\* continuation line that followed an entry header line still follows that
\* header line, contiguously and in order, and belongs to no other entry.
C16_EntriesStayTogether ==
    (Returned /\ variant = "skip" /\ result.changed) =>
        \A j \in Headers(input) :
            /\ EntryCount(result.out, Entry(input, j)) = EntryCount(input, Entry(input, j))
            /\ Occurrences(result.out, HeaderRun(input, j)) >=
                   Cardinality({i \in Headers(input) : HeaderRun(input, i) = HeaderRun(input, j)})

\* An entry with a continuation line is moved behind the inserted key.
C16_Witness ==
    /\ Returned
    /\ variant = "skip"
    /\ input = <<L_z, L_more, L_cont>>
    /\ result.changed
    /\ result.out = <<PlainLine(a), L_z, L_more, L_cont>>

\* The value of an entry header line: the text after the first ':', trimmed,
\* without the double quotes around it.
ValueOf(l) ==
    LET i == CHOOSE k \in 1..Len(l) : l[k] = ":" /\ \A m \in 1..(k - 1) : l[m] # ":"
    IN  TrimQuotes(TrimSpace(SubSeq(l, i + 1, Len(l))))

\* The lines of the block that hold the target key with another value.
Differing(cfg, block) ==
    {i \in 1..Len(block) :
        IsHeader(block[i]) /\ KeyOf(block[i]) = cfg.Annotation /\ ValueOf(block[i]) # cfg.Value}

\* When the block has the target key, each line that holds it with another
\* value is replaced in place by the target line, every other line is written
\* where it was, and changed tells whether a line was replaced.
C17_ReplacedInPlace ==
    (Returned /\ variant = "reconcile" /\ HasEntry(input, a.Annotation)) =>
        /\ ~result.panic
        /\ Len(result.out) = Len(input)
        /\ \A i \in 1..Len(input) :
               result.out[i] = IF i \in Differing(a, input)
                               THEN FormatQuoted(a.Annotation, a.Value)
                               ELSE input[i]
        /\ result.changed <=> Differing(a, input) # {}

\* A second call on the lines the first call wrote returns changed = FALSE.
C17_SecondCallUnchanged ==
    (Returned /\ variant = "reconcile") =>
        ~processAnnotations(variant, a, result.out).changed

\* C17: the value-reconciling processAnnotations replaces in place the line
\* that holds the target key with another value and returns changed = TRUE,
\* writes the block unchanged and returns changed = FALSE when the value is
\* equal, and a second call on its own output always returns changed = FALSE.
C17_Reconcile == C17_ReplacedInPlace /\ C17_SecondCallUnchanged

\* The file as it was when the current run started.
FileAtStart == IF runs = 1 THEN input ELSE first

\* C18: if reading the file fails, Run returns the error with no document
\* processed and nothing written; a write is attempted at most once per run,
\* only after every document has been processed; a failed write is returned.
C18_ErrorOutcomes ==
    /\ err = "read" =>
          /\ pc = "done"
          /\ wrote = 0
          /\ output = << >>
          /\ currentManifest = << >>
          /\ ~anyChanged
          /\ file = FileAtStart
    /\ wrote <= 1
    /\ wrote = 1 => (pc = "done" /\ lines = << >>)
    /\ (wrote = 1 /\ file # output) => err = "write"
    /\ err = "write" => (pc = "done" /\ wrote = 1)

\* A write that fails after two documents have been processed.
C18_Witness ==
    /\ pc = "done"
    /\ err = "write"
    /\ wrote = 1
    /\ Len(Docs(FileAtStart)) >= 2
    /\ file = FileAtStart

====
